---- MODULE Spec2Model ----
(***************************************************************************)
(* Model of ma-ribbon.py: a daily long/short equity strategy.  Every day   *)
(* the host calls before_trading_start (benchmark moving-average ribbon    *)
(* -> long/short allocations, pipeline output -> long/short lists), then   *)
(* my_rebalance one hour after the open (opening orders + daily_clean),    *)
(* then my_record_vars at the close.                                       *)
(*                                                                         *)
(* Prices and allocations are floats in the program.  They are modelled as *)
(* exact fractions <<n, d>> in lowest terms with d > 0, extended with the  *)
(* IEEE special values the program can produce: NaN = <<0, 0>> and         *)
(* +/-Inf = <<+/-1, 0>> (numpy float64 division by zero yields them with a *)
(* RuntimeWarning instead of raising).  Rounding error is not modelled.    *)
(***************************************************************************)
EXTENDS Integers, Sequences, FiniteSets, TLC

(* ------------------------------ bounds -------------------------------- *)
NumSecurities == 3
MaxDays == 2
MaxStep == 2
BasePrice == 100

Securities == 1..NumSecurities

(* ------------------------- program constants -------------------------- *)
RangeStart == 2
RangeStop == 25
RangeStep == 2
DiffGuard == 23
MinMarketCap == 50000000
PriceLow == 1
PriceHigh == 15
MinVolume == 1000000
ReturnScale == 100

(* ------------------------- float arithmetic --------------------------- *)
Abs(n) == IF n < 0 THEN -n ELSE n

Sign(n) == IF n < 0 THEN -1 ELSE IF n > 0 THEN 1 ELSE 0

RECURSIVE GCD(_, _)
GCD(a, b) == IF b = 0 THEN a ELSE GCD(b, a % b)

LCM(a, b) == (a \div GCD(a, b)) * b

Norm(n, d) == LET g == GCD(Abs(n), d) IN <<Sign(n) * (Abs(n) \div g), d \div g>>

Float(n) == <<n, 1>>

NaN == <<0, 0>>

Inf(s) == <<s, 0>>

Zero == Float(0)

One == Float(1)

Half == Norm(1, 2)

IsNaN(x) == x = NaN

IsFinite(x) == x[2] > 0

FNeg(x) == <<-x[1], x[2]>>

FAbs(x) == <<Abs(x[1]), x[2]>>

FAdd(x, y) ==
    IF IsNaN(x) \/ IsNaN(y) THEN NaN
    ELSE IF ~IsFinite(x) /\ ~IsFinite(y) THEN (IF x = y THEN x ELSE NaN)
    ELSE IF ~IsFinite(x) THEN x
    ELSE IF ~IsFinite(y) THEN y
    ELSE LET l == LCM(x[2], y[2])
         IN  Norm(x[1] * (l \div x[2]) + y[1] * (l \div y[2]), l)

FSub(x, y) == FAdd(x, FNeg(y))

FMul(x, y) ==
    IF IsNaN(x) \/ IsNaN(y) THEN NaN
    ELSE IF ~IsFinite(x) \/ ~IsFinite(y)
         THEN (IF x[1] = 0 \/ y[1] = 0 THEN NaN ELSE Inf(Sign(x[1]) * Sign(y[1])))
    ELSE LET g1 == GCD(Abs(x[1]), y[2])
             g2 == GCD(Abs(y[1]), x[2])
         IN  Norm((x[1] \div g1) * (y[1] \div g2), (x[2] \div g2) * (y[2] \div g1))

\* numpy float64 true division: x/0 is nan (x = 0) or +/-inf, never an exception
FDiv(x, y) ==
    IF IsNaN(x) \/ IsNaN(y) THEN NaN
    ELSE IF ~IsFinite(y) THEN (IF IsFinite(x) THEN Zero ELSE NaN)
    ELSE IF ~IsFinite(x) THEN Inf(x[1] * (IF y[1] < 0 THEN -1 ELSE 1))
    ELSE IF y[1] = 0 THEN (IF x[1] = 0 THEN NaN ELSE Inf(Sign(x[1])))
    ELSE FMul(x, <<Sign(y[1]) * y[2], Abs(y[1])>>)

\* comparisons: every comparison with NaN is false
FLt(x, y) ==
    /\ ~IsNaN(x)
    /\ ~IsNaN(y)
    /\ IF IsFinite(x) /\ IsFinite(y) THEN x[1] * y[2] < y[1] * x[2]
       ELSE IF ~IsFinite(x) /\ ~IsFinite(y) THEN x[1] < y[1]
       ELSE IF ~IsFinite(x) THEN x[1] < 0
       ELSE y[1] > 0

FEq(x, y) == ~IsNaN(x) /\ ~IsNaN(y) /\ x = y

FLe(x, y) == FLt(x, y) \/ FEq(x, y)

RECURSIVE FSumTo(_, _)
FSumTo(s, n) == IF n = 0 THEN Zero ELSE FAdd(FSumTo(s, n - 1), s[n])

FSum(s) == FSumTo(s, Len(s))

RECURSIVE IntSumTo(_, _)
IntSumTo(s, n) == IF n = 0 THEN 0 ELSE IntSumTo(s, n - 1) + s[n]

IntSum(s) == IntSumTo(s, Len(s))

FMin2(x, y) == IF IsNaN(x) \/ IsNaN(y) THEN NaN ELSE IF FLt(y, x) THEN y ELSE x

FMax2(x, y) == IF IsNaN(x) \/ IsNaN(y) THEN NaN ELSE IF FLt(x, y) THEN y ELSE x

RECURSIVE FMinTo(_, _)
FMinTo(s, n) == IF n = 1 THEN s[1] ELSE FMin2(FMinTo(s, n - 1), s[n])

FMin(s) == FMinTo(s, Len(s))

RECURSIVE FMaxTo(_, _)
FMaxTo(s, n) == IF n = 1 THEN s[1] ELSE FMax2(FMaxTo(s, n - 1), s[n])

FMax(s) == FMaxTo(s, Len(s))

\* range(start, stop, step) as a sequence
RECURSIVE PyRange(_, _, _)
PyRange(start, stop, step) ==
    IF start >= stop THEN <<>> ELSE <<start>> \o PyRange(start + step, stop, step)

\* a set of securities in index (sid) order
RECURSIVE SortedSeq(_)
SortedSeq(S) ==
    IF S = {} THEN <<>>
    ELSE LET m == CHOOSE x \in S : \A y \in S : x <= y
         IN  <<m>> \o SortedSeq(S \ {m})

(* --------------------- benchmark momentum allocator -------------------- *)
Windows == PyRange(RangeStart, RangeStop, RangeStep)

MaxWindow == Windows[Len(Windows)]

\* data.history(benchmark, 'price', bar_count, '1d'): the trailing bar_count bars
History(h, bar_count) == SubSeq(h, Len(h) - bar_count + 1, Len(h))

\* Series.mean()
Mean(s) == Norm(IntSum(s), Len(s))

\* for i in range(2,25,2): mean_group[i] = data.history(..., bar_count=i).mean()
RECURSIVE MeanGroupTo(_, _)
MeanGroupTo(h, k) ==
    IF k = 0 THEN <<>>
    ELSE MeanGroupTo(h, k - 1) @@ (Windows[k] :> Mean(History(h, Windows[k])))

MeanGroup(h) == MeanGroupTo(h, Len(Windows))

RECURSIVE SumDistanceShortTo(_, _)
SumDistanceShortTo(mg, k) ==
    IF k = 0 THEN <<>>
    ELSE LET i == Windows[k]
             sd == SumDistanceShortTo(mg, k - 1)
         IN  IF i < DiffGuard - RangeStep THEN Append(sd, FSub(mg[i], mg[i + RangeStep])) ELSE sd

RECURSIVE SumDistanceReversedTo(_, _)
SumDistanceReversedTo(mg, k) ==
    IF k = 0 THEN <<>>
    ELSE LET i == Windows[k]
             sd == SumDistanceReversedTo(mg, k - 1)
         IN  IF i < DiffGuard THEN Append(sd, FSub(mg[i + RangeStep], mg[i])) ELSE sd

\* for i in range(2,25,2): if i < 23: sum_distance.append(mean_group[i] - mean_group[i + 2])
RECURSIVE SumDistanceTo(_, _)
SumDistanceTo(mg, k) ==
    IF k = 0 THEN <<>>
    ELSE LET i == Windows[k]
             sd == SumDistanceTo(mg, k - 1)
         IN  IF i < DiffGuard THEN Append(sd, FSub(mg[i], mg[i + RangeStep])) ELSE sd

SumDistanceShort(mg) == SumDistanceShortTo(mg, Len(Windows))

SumDistanceReversed(mg) == SumDistanceReversedTo(mg, Len(Windows))

SumDistance(mg) == SumDistanceTo(mg, Len(Windows))

\* np.percentile(sum_distance, [0, 100]) is exactly <<min, max>>
HighLow(sd) == <<FMin(sd), FMax(sd)>>

AbsDiffRange(hl) == FSub(hl[2], hl[1])

AbsDiffLowOnly(hl) == FAdd(Zero, FAbs(hl[1]))

\* sum(abs(high_low))
AbsDiff(hl) == FAdd(FAdd(Zero, FAbs(hl[1])), FAbs(hl[2]))

\* for i in range(0, len(sum_distance)): allocations.append(sum_distance[i] / abs_diff)
RECURSIVE AllocationsTo(_, _, _)
AllocationsTo(sd, ad, n) ==
    IF n = 0 THEN <<>> ELSE Append(AllocationsTo(sd, ad, n - 1), FDiv(sd[n], ad))

Allocations(sd, ad) == AllocationsTo(sd, ad, Len(sd))

\* np.average
Average(s) == FDiv(FSum(s), Float(Len(s)))

LongAllocations(al) == FAdd(Half, Average(al))

ShortAllocations(la) == FSub(One, la)

(* ----------------------- universe and classification ------------------- *)
\* one security's market data for the day: close is close[-1], close0 is close[0]
Quote(base, shares, close, close0, volume) ==
    [base |-> base, shares |-> shares, close |-> close, close0 |-> close0, volume |-> volume]

\* MarketCap.compute: shares * close_price
MarketCap(q) == FMul(Float(q.shares), q.close)

\* WeeklyReturn.compute: (close[-1]/close[0] - 1) * 100
WeeklyReturn(q) == FMul(FSub(FDiv(q.close, q.close0), One), Float(ReturnScale))

above_micro(q) == FLe(Float(MinMarketCap), MarketCap(q))

\* Python `x and y`: y when x is truthy, else x
PyAnd(truthy, x, y) == IF truthy THEN y ELSE x

\* a pipeline Filter term defines no __bool__, so the object is truthy
FilterTruthy == TRUE

price_range_two_sided(q) == FLe(Float(PriceLow), q.close) /\ FLe(q.close, Float(PriceHigh))

price_range(q) ==
    PyAnd(FilterTruthy, FLe(Float(PriceLow), q.close), FLe(q.close, Float(PriceHigh)))

highly_liquid(q) == q.volume >= MinVolume

long_position(q) == FLt(Zero, WeeklyReturn(q))

short_position(q) == FLt(WeeklyReturn(q), Zero)

is_tradable(q) ==
    above_micro(q) /\ price_range(q) /\ highly_liquid(q) /\ (long_position(q) \/ short_position(q))

\* screen = base_universe & is_tradable
Screen(q) == q.base /\ is_tradable(q)

\* pipeline_output('my_pipeline'): one row per security passing the screen
PipelineOutput(m) ==
    [s \in {t \in Securities : Screen(m[t])} |->
        [close |-> m[s].close, volume |-> m[s].volume,
         longs |-> long_position(m[s]), shorts |-> short_position(m[s])]]

(* ------------------------------- state -------------------------------- *)
VARIABLES
    pc,            \* the callback the host runs next
    day,           \* trading days started so far
    history,       \* host: trailing daily benchmark prices, oldest first
    market,        \* host: today's market data per security
    tradable,      \* host: securities for which data.can_trade is true
    positions,     \* host: context.portfolio.positions, security -> sign of the amount held
    mean_group,    \* before_trading_start local
    sum_distance,  \* before_trading_start local
    abs_diff,      \* before_trading_start local
    allocations,   \* before_trading_start local (the list)
    context,       \* the attributes the script keeps on context
    orders,        \* order_target_percent requests of the current session
    recorded       \* values passed to record()

vars == <<pc, day, history, market, tradable, positions, mean_group, sum_distance,
          abs_diff, allocations, context, orders, recorded>>

(* --------------------------- host input sets -------------------------- *)
\* 24 bars rising or falling by s1 a day up to bar k and by s2 a day after it
Ramp(s1, s2, k) ==
    [t \in 1..MaxWindow |->
        BasePrice + s1 * ((IF t < k THEN t ELSE k) - 1) + s2 * (IF t < k THEN 0 ELSE t - k)]

Steps == (-MaxStep)..MaxStep

AllocHistories == {Ramp(s1, s2, k) : s1 \in Steps, s2 \in Steps, k \in 1..(MaxWindow - 1)}

TradeHistories == {Ramp(0, 0, 1), Ramp(1, 1, 1), Ramp(-1, -1, 1), Ramp(1, MaxStep, MaxWindow \div 2)}

\* the benchmark keeps its trend: today's bar moves as yesterday's did
TrendSteps(h) == {h[Len(h)] - h[Len(h) - 1]}

PipeHistories == {Ramp(1, MaxStep, MaxWindow \div 2)}

PipeSteps == {1}

QUp == Quote(TRUE, 10000000, Float(10), Float(9), 2000000)

QDown == Quote(TRUE, 10000000, Float(10), Float(11), 2000000)

QOut == Quote(TRUE, 10000000, Float(10), Float(10), 2000000)

QuotesSmall == {QUp, QDown, QOut}

ClosePrices == {Norm(1, 2), Float(PriceHigh), Float(PriceHigh + 1)}

QuotesRich ==
    {Quote(b, sh, c, c0, v) :
        b \in BOOLEAN, sh \in {MinMarketCap \div 50, 2 * MinMarketCap},
        c \in ClosePrices, c0 \in ClosePrices, v \in {MinVolume - 1, MinVolume}}

AllocMarkets == {[s \in Securities |-> QOut]}

\* securities 1..a rose, a+1..b are unchanged, b+1.. fell
CutMarket(a, b) == [s \in Securities |-> IF s <= a THEN QUp ELSE IF s <= b THEN QOut ELSE QDown]

TradeMarkets == {CutMarket(a, b) : a \in 0..NumSecurities, b \in 0..NumSecurities}

PipeMarkets == {[s \in Securities |-> IF s = 1 THEN q ELSE QOut] : q \in QuotesRich}

NoHalts == {{}}

OneHalt == {{}} \cup {{s} : s \in Securities}

(* ------------------------------- Init --------------------------------- *)
\* initialize() only registers the callbacks and the pipeline; the context
\* attributes are first assigned by before_trading_start
InitRest ==
    /\ pc = "before_trading_start"
    /\ day = 0
    /\ market = [s \in Securities |-> QOut]
    /\ tradable = Securities
    /\ positions = <<>>
    /\ mean_group = <<>>
    /\ sum_distance = <<>>
    /\ abs_diff = NaN
    /\ allocations = <<>>
    /\ context = [allocations |-> NaN, long_allocations |-> NaN, short_allocations |-> NaN,
                  output |-> <<>>, security_list |-> {}, longs |-> {}, shorts |-> {}]
    /\ orders = <<>>
    /\ recorded = <<>>

InitAlloc == history \in AllocHistories /\ InitRest

InitTrade == history \in TradeHistories /\ InitRest

InitPipe == history \in PipeHistories /\ InitRest

(* ------------------------------ actions ------------------------------- *)
\* The host opens a new session (new benchmark bar, new market data, open
\* orders of the previous session cancelled) and calls before_trading_start.
before_trading_start(steps, markets, halts) ==
    /\ pc = "before_trading_start"
    /\ day < MaxDays
    /\ \E st \in steps :
        /\ history' = Append(Tail(history), history[Len(history)] + st)
        /\ mean_group' = MeanGroup(history')
        /\ sum_distance' = SumDistance(mean_group')
        /\ abs_diff' = AbsDiff(HighLow(sum_distance'))
        /\ allocations' = Allocations(sum_distance', abs_diff')
        /\ \E avg \in {Average(allocations')}, la \in {LongAllocations(allocations')} :
           \E m \in markets :
           \E out \in {PipelineOutput(m)}, halted \in halts :
                /\ market' = m
                /\ tradable' = Securities \ halted
                /\ context' = [allocations |-> avg,
                               long_allocations |-> la,
                               short_allocations |-> ShortAllocations(la),
                               output |-> out,
                               security_list |-> DOMAIN out,
                               longs |-> {s \in DOMAIN out : out[s].longs},
                               shorts |-> {s \in DOMAIN out : out[s].shorts}]
    /\ day' = day + 1
    /\ orders' = <<>>
    /\ pc' = "my_rebalance"
    /\ UNCHANGED <<positions, recorded>>

\* order_target_percent(security, target), tagged with the function calling it
Order(security, target, by) == [security |-> security, target |-> target, by |-> by]

RebalanceGuardOr(ctx) == Cardinality(ctx.longs) > 0 \/ Cardinality(ctx.shorts) > 0

RebalanceGuard(ctx) == Cardinality(ctx.longs) > 0 /\ Cardinality(ctx.shorts) > 0

LongWeightOrdered(ctx, can_trade, my_positions) ==
    FDiv(ctx.long_allocations, Float(Cardinality((ctx.longs \cap can_trade) \ my_positions)))

long_weight(ctx, can_trade, my_positions) ==
    FDiv(ctx.long_allocations, Float(Cardinality(ctx.longs)))

short_weight(ctx, can_trade, my_positions) ==
    FDiv(ctx.short_allocations, Float(Cardinality(ctx.shorts)))

OpeningOrdersHeldToo(list, weight, can_trade, my_positions) ==
    LET eligible == SelectSeq(SortedSeq(list), LAMBDA s : s \in can_trade)
    IN  [k \in 1..Len(eligible) |-> Order(eligible[k], weight, "my_rebalance")]

\* for security in list: if data.can_trade(security): if security not in my_positions: order
OpeningOrders(list, weight, can_trade, my_positions) ==
    LET eligible == SelectSeq(SortedSeq(list),
                              LAMBDA s : s \in can_trade /\ s \notin my_positions)
    IN  [k \in 1..Len(eligible) |-> Order(eligible[k], weight, "my_rebalance")]

DailyCleanAnyStock(ctx, can_trade, my_positions) ==
    LET stale == SelectSeq(SortedSeq(my_positions), LAMBDA s : s \notin ctx.security_list)
    IN  [k \in 1..Len(stale) |-> Order(stale[k], Zero, "daily_clean")]

daily_clean(ctx, can_trade, my_positions) ==
    LET stale == SelectSeq(SortedSeq(my_positions),
                           LAMBDA s : s \notin ctx.security_list /\ s \in can_trade)
    IN  [k \in 1..Len(stale) |-> Order(stale[k], Zero, "daily_clean")]

RebalanceOrders(ctx, can_trade, my_positions) ==
    (IF RebalanceGuard(ctx)
     THEN OpeningOrders(ctx.longs, long_weight(ctx, can_trade, my_positions),
                        can_trade, my_positions)
          \o OpeningOrders(ctx.shorts, FNeg(short_weight(ctx, can_trade, my_positions)),
                           can_trade, my_positions)
     ELSE <<>>)
    \o daily_clean(ctx, can_trade, my_positions)

my_rebalance ==
    /\ pc = "my_rebalance"
    /\ orders' = RebalanceOrders(context, tradable, DOMAIN positions)
    /\ pc' = "fill"
    /\ UNCHANGED <<day, history, market, tradable, positions, mean_group, sum_distance,
                   abs_diff, allocations, context, recorded>>

\* host: a filled order with target 0 closes the position, any other target
\* leaves a long (1) or short (-1) position
RECURSIVE ApplyFills(_, _, _)
ApplyFills(held, os, filled) ==
    IF os = <<>> THEN held
    ELSE LET n == Len(os)
             before == ApplyFills(held, SubSeq(os, 1, n - 1), filled)
             s == os[n].security
         IN  IF n \notin filled THEN before
             ELSE [t \in IF os[n].target[1] = 0 THEN DOMAIN before \ {s}
                         ELSE DOMAIN before \cup {s} |->
                     IF t = s THEN Sign(os[n].target[1]) ELSE before[t]]

\* The host executes the session: each request with a numeric target is
\* filled or left unfilled; a request whose target is NaN cannot be sized.
Fill ==
    /\ pc = "fill"
    /\ \E filled \in SUBSET {k \in 1..Len(orders) : ~IsNaN(orders[k].target)} :
        positions' = ApplyFills(positions, orders, filled)
    /\ pc' = "my_record_vars"
    /\ UNCHANGED <<day, history, market, tradable, mean_group, sum_distance,
                   abs_diff, allocations, context, orders, recorded>>

my_record_vars ==
    /\ pc = "my_record_vars"
    /\ recorded' = [allocations |-> context.allocations,
                    long_allocations |-> context.long_allocations,
                    short_allocations |-> context.short_allocations,
                    number_of_longs |-> Cardinality(context.longs),
                    number_of_shorts |-> Cardinality(context.shorts)]
    /\ pc' = "before_trading_start"
    /\ UNCHANGED <<day, history, market, tradable, positions, mean_group, sum_distance,
                   abs_diff, allocations, context, orders>>

BeforeTradingStartAlloc == before_trading_start(Steps, AllocMarkets, NoHalts)

BeforeTradingStartTrade == before_trading_start(TrendSteps(history), TradeMarkets, OneHalt)

BeforeTradingStartPipe == before_trading_start(PipeSteps, PipeMarkets, NoHalts)

NextAlloc == BeforeTradingStartAlloc \/ my_rebalance \/ Fill \/ my_record_vars

NextTrade == BeforeTradingStartTrade \/ my_rebalance \/ Fill \/ my_record_vars

NextPipe == BeforeTradingStartPipe \/ my_rebalance \/ Fill \/ my_record_vars

\* benchmark allocator over a wide family of price histories
SpecAlloc == InitAlloc /\ [][NextAlloc]_vars

\* the daily trading cycle over changing universes, halts and fills
SpecTrade == InitTrade /\ [][NextTrade]_vars

\* the pipeline screen over a wide family of market data
SpecPipe == InitPipe /\ [][NextPipe]_vars

TypeOK ==
    /\ pc \in {"before_trading_start", "my_rebalance", "fill", "my_record_vars"}
    /\ day \in 0..MaxDays
    /\ Len(history) = MaxWindow
    /\ DOMAIN positions \subseteq Securities
    /\ \A s \in DOMAIN positions : positions[s] \in {1, -1}
    /\ tradable \subseteq Securities

(* ------------------------------ properties ---------------------------- *)
\* before_trading_start has run: context holds the values of its latest call
Ran == day > 0

Rebalanced == pc = "fill"

Held == DOMAIN positions

StrictlyIncreasing(h) == \A t \in 1..(Len(h) - 1) : h[t] < h[t + 1]

AllEqual(sd) == \A i \in 1..Len(sd) : \A j \in 1..Len(sd) : sd[i] = sd[j]

OrdersFor(s) == {k \in 1..Len(orders) : orders[k].security = s}

OrdersBy(f) == {k \in 1..Len(orders) : orders[k].by = f}

\* held securities absent from today's security_list that can be traded
Stale == {s \in Held : s \notin context.security_list /\ s \in tradable}

\* C1: after before_trading_start has run, long_allocations + short_allocations
\* equals exactly 1.0, for every benchmark price series.
C1_AllocationsSumToOne ==
    Ran => FEq(FAdd(context.long_allocations, context.short_allocations), One)

\* C2 (as stated): the securities that receive an order_target_percent(security, 0)
\* request in a call of my_rebalance are exactly the held securities absent from
\* security_list that can be traded.
C2_ZeroTargetsAreStalePositions ==
    Rebalanced =>
        {orders[k].security : k \in {i \in 1..Len(orders) : FEq(orders[i].target, Zero)}} = Stale

\* C2 (amended): on every call of my_rebalance, whatever the long and short lists,
\* the securities for which daily_clean requests order_target_percent(security, 0)
\* are exactly the held securities absent from security_list that can be traded,
\* and daily_clean requests no other target; a zero target outside daily_clean is
\* an opening order whose side has a zero allocation.
C2_CleanupFlattensStalePositions ==
    Rebalanced =>
        /\ {orders[k].security : k \in OrdersBy("daily_clean")} = Stale
        /\ \A k \in OrdersBy("daily_clean") : orders[k].target = Zero
        /\ \A k \in OrdersBy("my_rebalance") :
            FEq(orders[k].target, Zero) =>
                \/ orders[k].security \in context.longs /\ context.long_allocations = Zero
                \/ orders[k].security \in context.shorts /\ context.short_allocations = Zero

C2_Witness ==
    /\ Rebalanced
    /\ context.longs = {}
    /\ Stale # {}
    /\ \E s \in Held : s \notin context.security_list /\ s \notin tradable

\* C3: when both lists are non-empty, my_rebalance requests +long_allocations/count(longs)
\* for exactly the long-list securities that can be traded and are not held, and
\* -short_allocations/count(shorts) for exactly such short-list securities; the
\* divisor is the full list length and no untradable or held security is opened.
C3_OpeningOrders ==
    (Rebalanced /\ context.longs # {} /\ context.shorts # {}) =>
        {orders[k] : k \in OrdersBy("my_rebalance")} =
            {Order(s, FDiv(context.long_allocations, Float(Cardinality(context.longs))),
                   "my_rebalance") : s \in (context.longs \cap tradable) \ Held}
            \cup
            {Order(s, FNeg(FDiv(context.short_allocations, Float(Cardinality(context.shorts)))),
                   "my_rebalance") : s \in (context.shorts \cap tradable) \ Held}

C3_Witness ==
    /\ Rebalanced
    /\ Cardinality(context.longs) >= 2
    /\ context.shorts # {}
    /\ IsFinite(context.long_allocations)
    /\ context.long_allocations # Zero
    /\ \E s \in context.longs : (s \notin tradable \/ s \in Held) /\ OrdersFor(s) = {}
    /\ \E s \in context.longs : OrdersFor(s) # {}
    /\ \E s \in context.shorts : OrdersFor(s) # {}

\* C4: if the long list or the short list is empty, my_rebalance places no order
\* with a non-zero target: every request is a target-0 flatten order of the cleanup
\* pass, so held securities still in the universe are left untouched.
C4_NoOpeningWhenAListIsEmpty ==
    (Rebalanced /\ (context.longs = {} \/ context.shorts = {})) =>
        \A k \in 1..Len(orders) :
            /\ orders[k].by = "daily_clean"
            /\ orders[k].target = Zero
            /\ orders[k].security \in Held \ context.security_list

C4_Witness ==
    /\ Rebalanced
    /\ context.shorts = {}
    /\ IsFinite(context.long_allocations)
    /\ context.long_allocations # Zero
    /\ \E s \in context.longs : s \in tradable /\ s \notin Held
    /\ \E s \in Held : s \in context.security_list /\ s \in tradable
    /\ orders # <<>>

\* C5 (as stated): for a strictly increasing benchmark history every adjacent-window
\* difference (shorter - longer) is negative and long_allocations < 0.5.
C5_RisingGivesNegativeDifferences ==
    (Ran /\ StrictlyIncreasing(history)) =>
        /\ \A k \in 1..Len(sum_distance) : FLt(sum_distance[k], Zero)
        /\ FLt(context.long_allocations, Half)

\* C5 (amended): for a strictly increasing benchmark history every adjacent-window
\* difference (shorter - longer) is positive and long_allocations > 0.5.
C5_RisingGivesPositiveDifferences ==
    (Ran /\ StrictlyIncreasing(history)) =>
        /\ \A k \in 1..Len(sum_distance) : FLt(Zero, sum_distance[k])
        /\ FLt(Half, context.long_allocations)

C5_Witness == Ran /\ StrictlyIncreasing(history) /\ ~AllEqual(sum_distance)

\* C6: a base-universe security is in the pipeline output iff market cap >= 50,000,000,
\* volume >= 1,000,000, return non-zero and close <= 15 (no lower price bound); each
\* output row has exactly one true flag, longs iff the return is positive, shorts iff
\* negative; longs and shorts are disjoint and their union is security_list.
C6_PipelineOutput ==
    Ran =>
        /\ \A s \in Securities :
            LET q == market[s]
                up == q.close[1] * q.close0[2] > q.close0[1] * q.close[2]
                down == q.close[1] * q.close0[2] < q.close0[1] * q.close[2]
            IN  /\ s \in context.security_list <=>
                    /\ q.base
                    /\ q.shares * q.close[1] >= 50000000 * q.close[2]
                    /\ q.volume >= 1000000
                    /\ up \/ down
                    /\ q.close[1] <= 15 * q.close[2]
                /\ s \in context.security_list =>
                    /\ context.output[s].longs # context.output[s].shorts
                    /\ context.output[s].longs <=> up
                    /\ context.output[s].shorts <=> down
                    /\ s \in context.longs <=> up
                    /\ s \in context.shorts <=> down
        /\ context.longs \cap context.shorts = {}
        /\ context.longs \cup context.shorts = context.security_list
        /\ DOMAIN context.output = context.security_list

C6_Witness ==
    /\ Ran
    /\ \E s \in context.security_list : FLt(market[s].close, One) /\ s \in context.shorts

\* C7 (as stated): 12 window averages are computed but only the 10 adjacent pairs
\* 2-4, ..., 20-22 are differenced; the window-24 average is in no difference.
C7_TenDifferences ==
    Ran =>
        /\ Cardinality(DOMAIN mean_group) = 12
        /\ Len(sum_distance) = 10
        /\ \A k \in 1..Len(sum_distance) :
            sum_distance[k] = FSub(mean_group[2 * k], mean_group[2 * k + 2])

\* C7 (amended): 12 window averages are computed and the 11 adjacent pairs
\* 2-4, ..., 20-22, 22-24 are differenced; the i < 23 guard only skips i = 24, so
\* the window-24 average is used in the last difference.
C7_ElevenDifferences ==
    Ran =>
        /\ DOMAIN mean_group = {2 * k : k \in 1..12}
        /\ Len(sum_distance) = 11
        /\ \A k \in 1..11 : sum_distance[k] = FSub(mean_group[2 * k], mean_group[2 * k + 2])

C7_Witness == Ran /\ Len(sum_distance) = 11 /\ mean_group[22] # mean_group[24]

\* C8 (as stated): whenever all adjacent-window differences are equal to one another,
\* the normalizing scale abs_diff = |min| + |max| is zero.
C8_EqualDifferencesGiveZeroScale == (Ran /\ AllEqual(sum_distance)) => abs_diff = Zero

\* C8 (amended): abs_diff = |min| + |max| is zero exactly when all differences are
\* zero (as for a flat history), and then the unguarded division divides by zero
\* (every normalized difference is 0/0); when the differences all equal a non-zero
\* d, abs_diff is 2|d| and nothing is divided by zero.
C8_ZeroScaleIffAllZero ==
    Ran =>
        /\ abs_diff = Zero <=> \A k \in 1..Len(sum_distance) : sum_distance[k] = Zero
        /\ abs_diff = Zero => \A k \in 1..Len(allocations) : IsNaN(allocations[k])
        /\ abs_diff # Zero => \A k \in 1..Len(allocations) : IsFinite(allocations[k])
        /\ AllEqual(sum_distance) => abs_diff = FMul(Float(2), FAbs(sum_distance[1]))

C8_Witness == Ran /\ abs_diff = Zero /\ IsNaN(context.long_allocations)

\* C9: when the normalizing scale is non-zero every normalized difference lies in
\* [-1, 1], so their mean lies in [-1, 1] and long_allocations in [-0.5, 1.5];
\* values outside [0, 1] are reached.
C9_NormalizedDifferencesBounded ==
    (Ran /\ abs_diff # Zero) =>
        /\ \A k \in 1..Len(allocations) :
            FLe(Float(-1), allocations[k]) /\ FLe(allocations[k], One)
        /\ FLe(Float(-1), context.allocations) /\ FLe(context.allocations, One)
        /\ FLe(FNeg(Half), context.long_allocations)
        /\ FLe(context.long_allocations, FAdd(One, Half))

C9_Witness == Ran /\ abs_diff # Zero /\ FLt(One, context.long_allocations)

\* C10: within one call of my_rebalance every security receives at most one
\* order_target_percent request, and a held security that is still in security_list
\* receives none, whatever its long/short classification today.
C10_AtMostOneOrderPerSecurity ==
    Rebalanced =>
        \A s \in Securities :
            /\ Cardinality(OrdersFor(s)) <= 1
            /\ (s \in Held /\ s \in context.security_list) => OrdersFor(s) = {}

C10_Witness ==
    /\ Rebalanced
    /\ \E s \in Held \cap context.shorts :
        positions[s] = 1 /\ s \in tradable /\ OrdersFor(s) = {}
    /\ context.longs # {}
    /\ OrdersBy("my_rebalance") # {}
    /\ OrdersBy("daily_clean") # {}

====
